---- MODULE Spec2Model ----
(***************************************************************************)
(* Model of EmailService (src/email_service.py): the SMTP adapter          *)
(* _attempt_send_email, the orchestrator send_email with its fallback      *)
(* chain and connectivity probe, the HTTP provider adapter                 *)
(* send_via_sendgrid_api and send_email_with_api_fallback.                 *)
(*                                                                         *)
(* Conventions.  A Python dict is a TLA+ record; a key the dict lacks is   *)
(* a field the record lacks.  A Python list is a sequence; None and the    *)
(* empty list are both the empty sequence (the code only tests them for    *)
(* truth).  A text that is only built and compared whole is a string; a    *)
(* text that is searched or cut is a sequence of tokens (words, or single  *)
(* characters for a response body).                                        *)
(***************************************************************************)
EXTENDS Integers, Sequences, FiniteSets, TLC

VARIABLES
    self,        \* the EmailService instance: its fields
    args,        \* the caller's arguments: the lists are the caller's objects
    entry,       \* the public method the caller invoked
    pc,          \* position of the call
    idx,         \* send_email: index of the fallback loop
    result,      \* send_email: its local `result` (the last attempt's return)
    smtp_ret,    \* what send_email returned
    returned,    \* what the invoked method returned to the caller
    attempts,    \* log: one entry per _attempt_send_email call
    conn,        \* connection of the last SMTP attempt: none / open / closed
    last_fault,  \* what the transport did to the last SMTP attempt
    probed,      \* log: host:port of every _test_smtp_connection call
    api_calls,   \* log: the to_email argument of every send_via_sendgrid_api call
    http,        \* log: every request handed to requests.post
    http_reply,  \* what requests.post did on the last request
    escaped,     \* an exception left an adapter (its class), or "none"
    environ,     \* main.py: the process environment of the web service
    api_response,\* main.py: what the endpoint answered
    sends        \* concurrent send_email calls on one instance: their locals

vars == <<self, args, entry, pc, idx, result, smtp_ret, returned, attempts,
          conn, last_fault, probed, api_calls, http, http_reply, escaped,
          environ, api_response, sends>>

----------------------------------------------------------------------------
(* Bounds of the model. *)

MaxTo == 2          \* longest `to` list
MaxCopy == 1        \* longest cc list and longest bcc list
MaxErrors == 2      \* longest error list of a provider response body
MaxBodyLen == 502   \* longest provider response text, in characters

(* Program constants. *)

TruncLen == 500     \* response.text[:500]
HttpAccepted == 202
HttpUnauthorized == 401
HttpForbidden == 403
HttpBadRequest == 400

----------------------------------------------------------------------------
(* Generic helpers. *)

RECURSIVE SeqsUpTo(_, _)
\* all sequences over S of length at most n
SeqsUpTo(S, n) ==
    IF n = 0 THEN {<<>>}
    ELSE LET shorter == SeqsUpTo(S, n - 1)
         IN  shorter \cup {Append(s, x) : s \in {t \in shorter : Len(t) = n - 1}, x \in S}

Range(s) == {s[i] : i \in 1..Len(s)}

Has(d, k) == k \in DOMAIN d

\* Python truth of a list or a string-like sequence, and of a string
Truthy(l) == l # <<>>
TruthyStr(s) == s # ""

\* `needle in text` on token sequences: a contiguous occurrence
Contains(text, needle) ==
    \E i \in 0..(Len(text) - Len(needle)) :
        \A j \in 1..Len(needle) : text[i + j] = needle[j]

RECURSIVE Join(_, _)
\* sep.join(list), as tokens: the items with the separator between them
Join(sep, list) ==
    IF Len(list) = 0 THEN <<>>
    ELSE IF Len(list) = 1 THEN <<list[1]>>
    ELSE <<list[1], sep>> \o Join(sep, Tail(list))

\* f"{server}:{port}"
ConfigName(server, port) == server \o ":" \o ToString(port)

----------------------------------------------------------------------------
(* The exceptions the transports raise, with the class hierarchy the       *)
(* except clauses test against.                                            *)

ExcParent(cls) ==
    CASE cls = "SMTPAuthenticationError" -> "SMTPResponseException"
      [] cls = "SMTPConnectError"        -> "SMTPResponseException"
      [] cls = "SMTPResponseException"   -> "SMTPException"
      [] cls = "SMTPRecipientsRefused"   -> "SMTPException"
      [] cls = "SMTPNotSupportedError"   -> "SMTPException"
      [] cls = "SMTPException"           -> "OSError"
      [] cls = "ConnectionRefusedError"  -> "OSError"
      [] cls = "requests.ConnectTimeout" -> "requests.ConnectionError"
      [] cls = "requests.ReadTimeout"    -> "requests.Timeout"
      [] cls = "requests.ConnectionError" -> "requests.RequestException"
      [] cls = "requests.Timeout"        -> "requests.RequestException"
      [] cls = "requests.RequestException" -> "OSError"
      [] cls = "OSError"                 -> "Exception"
      [] cls = "UnicodeEncodeError"      -> "Exception"
      [] cls = "TypeError"               -> "Exception"
      [] OTHER                           -> "Exception"

RECURSIVE IsInstance(_, _)
\* isinstance(e, base), e of class cls
IsInstance(cls, base) ==
    \/ cls = base
    \/ cls # "Exception" /\ IsInstance(ExcParent(cls), base)

NoFault == [stage |-> "none", cls |-> "none", text |-> <<>>]

\* What an SMTP attempt can meet: the step that raises, the class raised and
\* str(e) as tokens.
SmtpFaults ==
    { [stage |-> "connect",  cls |-> "SMTPConnectError",
       text |-> <<"(421, b'Service not available')">>],
      [stage |-> "connect",  cls |-> "OSError",
       text |-> <<"[Errno 101] ", "Network is unreachable">>],
      [stage |-> "connect",  cls |-> "ConnectionRefusedError",
       text |-> <<"[Errno 111] ", "Connection refused">>],
      [stage |-> "starttls", cls |-> "SMTPNotSupportedError",
       text |-> <<"STARTTLS extension not supported by server.">>],
      [stage |-> "login",    cls |-> "SMTPAuthenticationError",
       text |-> <<"(535, b'Username and Password not accepted')">>],
      [stage |-> "sendmail", cls |-> "SMTPRecipientsRefused",
       text |-> <<"{'x': (550, b'User unknown')}">>],
      [stage |-> "sendmail", cls |-> "UnicodeEncodeError",
       text |-> <<"'ascii' codec can't encode character">>] }

\* The faults an attempt with this encryption mode can meet: SMTP_SSL never
\* calls starttls.
FaultsFor(use_ssl) ==
    {NoFault} \cup {f \in SmtpFaults : use_ssl => f.stage # "starttls"}

----------------------------------------------------------------------------
(* _attempt_send_email *)

\* the headers with the bcc list written to a Bcc header as well
ComposeHeadersWithBcc(s, to_emails, cc_emails, bcc_emails, subject) ==
    [From    |-> <<s.sender_name, " <", s.sender_email, ">">>,
     To      |-> Join(", ", to_emails),
     Subject |-> <<subject>>,
     Cc      |-> Join(", ", cc_emails),
     Bcc     |-> Join(", ", bcc_emails)]

\* The headers set on the MIMEMultipart message (a Cc header only for a
\* non-empty cc; never a Bcc header).
ComposeHeaders(s, to_emails, cc_emails, bcc_emails, subject) ==
    LET base == [From    |-> <<s.sender_name, " <", s.sender_email, ">">>,
                 To      |-> Join(", ", to_emails),
                 Subject |-> <<subject>>]
    IN  IF Truthy(cc_emails)
        THEN [From |-> base.From, To |-> base.To, Subject |-> base.Subject,
              Cc |-> Join(", ", cc_emails)]
        ELSE base

\* all_recipients built without the bcc list
AllRecipientsNoBcc(to_emails, cc_emails, bcc_emails) ==
    to_emails \o (IF Truthy(cc_emails) THEN cc_emails ELSE <<>>)

\* all_recipients: a copy of to_emails extended by cc and bcc
AllRecipients(to_emails, cc_emails, bcc_emails) ==
    to_emails
      \o (IF Truthy(cc_emails) THEN cc_emails ELSE <<>>)
      \o (IF Truthy(bcc_emails) THEN bcc_emails ELSE <<>>)

\* the dict returned after server.quit()
SmtpSuccess(smtp_server, smtp_port, all_recipients) ==
    [status      |-> "success",
     message     |-> <<"Email enviado exitosamente a ",
                       ToString(Len(all_recipients)), " destinatarios">>,
     recipients  |-> Len(all_recipients),
     server_used |-> ConfigName(smtp_server, smtp_port)]

Return(value) == [kind |-> "return", value |-> value]
Raise(cls)    == [kind |-> "raise", cls |-> cls]

\* the except clauses without the closing `except Exception`
SmtpExceptNoCatchAll(smtp_server, smtp_port, fault) ==
    IF IsInstance(fault.cls, "SMTPAuthenticationError")
    THEN Return([status  |-> "auth_error",
                 message |-> <<"Error de autenticación SMTP: ">> \o fault.text])
    ELSE IF IsInstance(fault.cls, "OSError")
    THEN Return([status  |-> "network_error",
                 message |-> <<"Error de red: ">> \o fault.text])
    ELSE Raise(fault.cls)

\* The except clauses of _attempt_send_email, in their order.
SmtpExcept(smtp_server, smtp_port, fault) ==
    LET name == ConfigName(smtp_server, smtp_port)
    IN  IF IsInstance(fault.cls, "SMTPAuthenticationError")
        THEN Return([status  |-> "auth_error",
                     message |-> <<"Error de autenticación SMTP: ">> \o fault.text])
        ELSE IF IsInstance(fault.cls, "SMTPConnectError")
        THEN Return([status  |-> "connection_error",
                     message |-> <<"Error de conexión SMTP a ", name, ": ">> \o fault.text])
        ELSE IF IsInstance(fault.cls, "OSError")
        THEN IF Contains(fault.text, <<"Network is unreachable">>)
             THEN Return([status  |-> "network_unreachable",
                          message |-> <<"Red no alcanzable para ", name,
                                        ". Railway podría estar bloqueando este puerto.">>])
             ELSE Return([status  |-> "network_error",
                          message |-> <<"Error de red: ">> \o fault.text])
        ELSE IF IsInstance(fault.cls, "Exception")
        THEN Return([status  |-> "error",
                     message |-> <<"Error inesperado enviando email via ", name, ": ">>
                                   \o fault.text])
        ELSE Raise(fault.cls)

\* the envelope built on the caller's list itself, which grows with it
ToEmailsGrown(to_emails, all_recipients) == all_recipients

\* The caller's to_emails list after the call: the envelope is built on a
\* copy (to_emails.copy()), so the caller's list is as it was.
ToEmailsAfter(to_emails, all_recipients) == to_emails

\* The connection when the attempt returns: never opened, left open (quit
\* was not reached) or closed by server.quit().
ConnAfter(fault) ==
    IF fault.stage = "connect" THEN "none"
    ELSE IF fault.stage = "none" THEN "quit"
    ELSE "open"

\* One call of _attempt_send_email under the given fault: what it composed,
\* what it handed to the transport and what it gives back.
AttemptSendEmail(s, smtp_server, smtp_port, use_ssl, a, fault) ==
    LET headers        == ComposeHeaders(s, a.to_emails, a.cc_emails, a.bcc_emails, a.subject)
        all_recipients == AllRecipients(a.to_emails, a.cc_emails, a.bcc_emails)
    IN  [log  |-> [server   |-> smtp_server,
                   port     |-> smtp_port,
                   use_ssl  |-> use_ssl,
                   headers  |-> headers,
                   envelope |-> all_recipients,
                   mail_from |-> s.sender_email,
                   ok       |-> fault = NoFault],
         to_after |-> ToEmailsAfter(a.to_emails, all_recipients),
         conn |-> ConnAfter(fault),
         fault |-> fault,
         out  |-> IF fault = NoFault
                  THEN Return(SmtpSuccess(smtp_server, smtp_port, all_recipients))
                  ELSE SmtpExcept(smtp_server, smtp_port, fault)]

----------------------------------------------------------------------------
(* send_via_sendgrid_api *)

\* A Python value handed over as to_email: a str or a list of str.
PyStr(x)  == [py |-> "str",  v |-> x]
PyList(l) == [py |-> "list", v |-> l]

\* str(value) inside an f-string, as tokens
StrOf(value) ==
    IF value.py = "str" THEN <<value.v>>
    ELSE <<"[">> \o Join(", ", value.v) \o <<"]">>

\* message.lower(), word by word
LowerWord(w) ==
    CASE w = "Sender"   -> "sender"
      [] w = "Identity" -> "identity"
      [] w = "From"     -> "from"
      [] w = "Address"  -> "address"
      [] OTHER          -> w

Lower(text) == [i \in 1..Len(text) |-> LowerWord(text[i])]

\* error.get('message', '')
ErrorMessage(error) == IF Has(error, "message") THEN error.message ELSE <<>>

\* the same search on the messages as they are, not lowered
SenderIdentityErrorCaseSensitive(errors) ==
    \E i \in 1..Len(errors) :
        \/ Contains(ErrorMessage(errors[i]), <<"sender", "identity">>)
        \/ Contains(ErrorMessage(errors[i]), <<"from", "address">>)

\* any('sender identity' in m.lower() or 'from address' in m.lower() ...)
SenderIdentityError(errors) ==
    \E i \in 1..Len(errors) :
        \/ Contains(Lower(ErrorMessage(errors[i])), <<"sender", "identity">>)
        \/ Contains(Lower(ErrorMessage(errors[i])), <<"from", "address">>)

\* response.json() succeeds and gives a dict (else error_data.get raises)
JsonDict(body) == body.parses /\ body.json.py = "dict"

\* error_data.get('errors', [])
ErrorsOf(body) ==
    IF Has(body.json.v, "errors") THEN body.json.v.errors ELSE <<>>

\* the response text attached whole
TruncateNever(text) == text

\* response.text[:500] if len(response.text) > 500 else response.text
Truncate(text) ==
    IF Len(text) > TruncLen THEN SubSeq(text, 1, TruncLen) ELSE text

\* the `data` dict posted as JSON
ProviderPayload(s, to_email, subject, body, is_html) ==
    [personalizations |-> << [to |-> << [email |-> to_email] >>] >>,
     from    |-> [email |-> s.sender_email, name |-> s.sender_name],
     subject |-> subject,
     content |-> << [type  |-> IF is_html THEN "text/html" ELSE "text/plain",
                     value |-> body] >>]

\* the branch on response.status_code == 403
Provider403(s, response) ==
    IF JsonDict(response.body)
    THEN IF SenderIdentityError(ErrorsOf(response.body))
         THEN [status          |-> "error",
               error_type      |-> "sender_not_verified",
               message         |-> <<"El email ", s.sender_email,
                                     " no está verificado en SendGrid">>,
               sendgrid_errors |-> ErrorsOf(response.body),
               solution        |-> <<"step_1", "step_2", "step_3", "step_4", "step_5">>]
         ELSE [status          |-> "error",
               error_type      |-> "forbidden",
               message         |-> <<"Acceso denegado por SendGrid">>,
               sendgrid_errors |-> ErrorsOf(response.body),
               response_code   |-> response.status_code]
    ELSE [status     |-> "error",
          error_type |-> "forbidden",
          message    |-> <<"SendGrid API error 403: ">> \o response.body.text,
          solution   |-> <<"Verifica la configuración de SendGrid Sender Authentication">>]

\* the branch on response.status_code == 400
Provider400(s, to_email, subject, response) ==
    IF JsonDict(response.body)
    THEN [status          |-> "error",
          error_type      |-> "bad_request",
          message         |-> <<"Error en los datos enviados a SendGrid">>,
          sendgrid_errors |-> ErrorsOf(response.body),
          sent_data       |-> [from |-> s.sender_email, to |-> to_email,
                               subject |-> subject]]
    ELSE [status     |-> "error",
          error_type |-> "bad_request",
          message    |-> <<"SendGrid API error 400: ">> \o response.body.text]

\* the if/elif chain on response.status_code
ProviderInterpret(s, to_email, subject, response) ==
    IF response.status_code = HttpAccepted
    THEN [status    |-> "success",
          message   |-> <<"Email enviado via SendGrid API a ">> \o StrOf(to_email),
          method    |-> "sendgrid_api",
          recipient |-> to_email]
    ELSE IF response.status_code = HttpUnauthorized
    THEN [status     |-> "error",
          error_type |-> "authentication",
          message    |-> <<"API Key de SendGrid inválida">>,
          solution   |-> <<"Verifica que SENDGRID_API_KEY sea correcta en Railway">>]
    ELSE IF response.status_code = HttpForbidden
    THEN Provider403(s, response)
    ELSE IF response.status_code = HttpBadRequest
    THEN Provider400(s, to_email, subject, response)
    ELSE [status     |-> "error",
          error_type |-> "api_error_" \o ToString(response.status_code),
          message    |-> <<"SendGrid API error: ", ToString(response.status_code)>>,
          response   |-> Truncate(response.body.text)]

\* the except clauses around the request, in their order
ProviderExcept(fault) ==
    IF IsInstance(fault.cls, "requests.ConnectionError")
    THEN Return([status     |-> "error",
                 error_type |-> "connection_error",
                 message    |-> <<"No se pudo conectar a SendGrid API">>,
                 details    |-> fault.text,
                 solution   |-> <<"Verifica la conexión a internet desde Railway">>])
    ELSE IF IsInstance(fault.cls, "requests.Timeout")
    THEN Return([status     |-> "error",
                 error_type |-> "timeout",
                 message    |-> <<"Timeout conectando a SendGrid API">>,
                 details    |-> fault.text])
    ELSE IF IsInstance(fault.cls, "Exception")
    THEN Return([status     |-> "error",
                 error_type |-> "unexpected_error",
                 message    |-> <<"Error inesperado con SendGrid API: ">> \o fault.text])
    ELSE Raise(fault.cls)

\* the precondition checks with the sender tested first
ProviderPrecheckSenderFirst(s) ==
    IF ~TruthyStr(s.sender_email)
    THEN [status     |-> "error",
          error_type |-> "sender_missing",
          message    |-> <<"EMAIL_FROM no configurado">>,
          solution   |-> <<"Configura EMAIL_FROM en las variables de entorno">>]
    ELSE IF ~TruthyStr(s.sendgrid_api_key)
    THEN [status     |-> "error",
          error_type |-> "config_missing",
          message    |-> <<"SENDGRID_API_KEY no configurado.">>,
          solution   |-> <<"Agrega SENDGRID_API_KEY en Railway">>]
    ELSE [status |-> "proceed"]

\* The precondition checks made before the try block: the dict returned
\* without a request, or "proceed".
ProviderPrecheck(s) ==
    IF ~TruthyStr(s.sendgrid_api_key)
    THEN [status     |-> "error",
          error_type |-> "config_missing",
          message    |-> <<"SENDGRID_API_KEY no configurado. Configúralo en Railway para usar esta alternativa.">>,
          solution   |-> <<"Agrega SENDGRID_API_KEY en Railway">>]
    ELSE IF ~TruthyStr(s.sender_email)
    THEN [status     |-> "error",
          error_type |-> "sender_missing",
          message    |-> <<"EMAIL_FROM no configurado">>,
          solution   |-> <<"Configura EMAIL_FROM en las variables de entorno">>]
    ELSE [status |-> "proceed"]

\* One call of send_via_sendgrid_api: `reply` is what requests.post does if it
\* is called (a response, or an exception).
SendViaSendgridApi(s, to_email, subject, body, is_html, reply) ==
    LET pre == ProviderPrecheck(s)
    IN  IF pre.status # "proceed"
        THEN [posted |-> <<>>, out |-> Return(pre)]
        ELSE [posted |-> << [url     |-> "https://api.sendgrid.com/v3/mail/send",
                             headers |-> [Authorization |-> <<"Bearer ", s.sendgrid_api_key>>,
                                          ContentType   |-> "application/json"],
                             json    |-> ProviderPayload(s, to_email, subject, body, is_html)] >>,
              out    |-> IF reply.kind = "response"
                         THEN Return(ProviderInterpret(s, to_email, subject, reply))
                         ELSE ProviderExcept(reply)]

----------------------------------------------------------------------------
(* test_connectivity and _test_smtp_connection *)

\* What the network does to a TCP connect, per condition of the network.
NetOutcomes == {"connected", "refused", "gaierror", "exception"}

NetWorlds == {"connected", "exception", "only_gmail", "only_submission"}

\* the outcome of sock.connect_ex((server, port)) in a world
ProbeNet(world, server, port) ==
    CASE world \in NetOutcomes     -> world
      [] world = "only_gmail"      -> IF server = "smtp.gmail.com" THEN "connected" ELSE "gaierror"
      [] world = "only_submission" -> IF port = 587 THEN "connected" ELSE "refused"

\* _test_smtp_connection
TestSmtpConnection(server, port, world) ==
    LET net == ProbeNet(world, server, port)
    IN  CASE net = "connected" -> [status |-> "reachable", message |-> <<"Conexión exitosa">>]
          [] net = "refused"   -> [status |-> "unreachable",
                                   message |-> <<"Error de conexión: ", "111">>]
          [] net = "gaierror"  -> [status |-> "dns_error",
                                   message |-> <<"Error DNS: ", "Name or service not known">>]
          [] OTHER             -> [status |-> "error",
                                   message |-> <<"Error: ", "unexpected">>]

\* results[k] = v
DictSet(d, k, v) == [x \in DOMAIN d \cup {k} |-> IF x = k THEN v ELSE d[x]]

RECURSIVE ProbeLoopNoSkip(_, _, _, _)
\* the loop probing every fallback config, the current one included
ProbeLoopNoSkip(configs, current_config, world, acc) ==
    IF configs = <<>> THEN acc
    ELSE LET config      == Head(configs)
             config_name == ConfigName(config.server, config.port)
         IN  ProbeLoopNoSkip(Tail(configs), current_config, world,
                 [results |-> DictSet(acc.results, config_name,
                                 TestSmtpConnection(config.server, config.port, world)),
                  log     |-> Append(acc.log, config_name)])

RECURSIVE ProbeLoop(_, _, _, _)
\* the loop of test_connectivity over the fallback configs
ProbeLoop(configs, current_config, world, acc) ==
    IF configs = <<>> THEN acc
    ELSE LET config      == Head(configs)
             config_name == ConfigName(config.server, config.port)
         IN  IF config_name # current_config
             THEN ProbeLoop(Tail(configs), current_config, world,
                     [results |-> DictSet(acc.results, config_name,
                                     TestSmtpConnection(config.server, config.port, world)),
                      log     |-> Append(acc.log, config_name)])
             ELSE ProbeLoop(Tail(configs), current_config, world, acc)

\* test_connectivity: the results dict, and the probes made in their order
TestConnectivity(s, world) ==
    LET current_config == ConfigName(s.smtp_server, s.smtp_port)
    IN  ProbeLoop(s.fallback_configs, current_config, world,
            [results |-> [x \in {current_config} |->
                             TestSmtpConnection(s.smtp_server, s.smtp_port, world)],
             log     |-> <<current_config>>])

----------------------------------------------------------------------------
(* The service instance and the calls made on it. *)

\* self.fallback_configs as __init__ builds it
FallbackConfigs ==
    << [server |-> "smtp.gmail.com",        port |-> 587, ssl |-> FALSE],
       [server |-> "smtp.gmail.com",        port |-> 465, ssl |-> TRUE],
       [server |-> "smtp-mail.outlook.com", port |-> 587, ssl |-> FALSE],
       [server |-> "smtp.sendgrid.net",     port |-> 587, ssl |-> FALSE] >>

\* the primary endpoints a deployment may configure
PrimaryChoices ==
    { [server |-> "smtp.gmail.com",   port |-> 587],
      [server |-> "smtp.gmail.com",   port |-> 465],
      [server |-> "mail.example.org", port |-> 25] }

\* EmailService.__init__
NewEmailService(smtp_server, smtp_port, sender_email, sendgrid_api_key) ==
    [smtp_server      |-> smtp_server,
     smtp_port        |-> smtp_port,
     username         |-> "user",
     password         |-> "secret",
     sender_email     |-> sender_email,
     sender_name      |-> "Email Sender API",
     sendgrid_api_key |-> sendgrid_api_key,
     fallback_configs |-> FallbackConfigs]

Services ==
    { NewEmailService(p.server, p.port, sender, key) :
        p \in PrimaryChoices, sender \in {"", "noreply@x.org"}, key \in {"", "SG.key"} }

ToAddresses == {"a@x.org", "b@x.org"}

\* the arguments of send_email / send_email_with_api_fallback
ListCalls ==
    { [to_emails    |-> to,
       subject      |-> "hello",
       body         |-> "text",
       cc_emails    |-> cc,
       bcc_emails   |-> bcc,
       attachments  |-> att,
       is_html      |-> html,
       use_fallback |-> uf] :
        to   \in SeqsUpTo(ToAddresses, MaxTo) \ {<<>>},
        cc   \in SeqsUpTo({"c@x.org"}, MaxCopy),
        bcc  \in SeqsUpTo({"a@x.org"}, MaxCopy),
        att  \in {<<>>, <<"/tmp/report.pdf">>},
        html \in BOOLEAN,
        uf   \in BOOLEAN }

\* the arguments of a direct send_via_sendgrid_api call
DirectCalls ==
    { [to_email |-> to, subject |-> "hello", body |-> "text", is_html |-> html] :
        to \in ToAddresses, html \in BOOLEAN }

Unset == [status |-> "unset"]
NoReply == [kind |-> "none"]

\* the variables of the web layer and of concurrent calls, when not in use
NoEnviron == [k \in {} |-> ""]
NoResponse == [status_code |-> 0]

Init ==
    /\ self \in Services
    /\ entry \in {"send_email", "send_email_with_api_fallback", "send_via_sendgrid_api"}
    /\ args \in CASE entry = "send_email" -> ListCalls
                  [] entry = "send_email_with_api_fallback" ->
                        {a \in ListCalls : a.use_fallback}
                  [] OTHER -> DirectCalls
    /\ pc = "called"
    /\ idx = 0
    /\ result = Unset
    /\ smtp_ret = Unset
    /\ returned = Unset
    /\ attempts = <<>>
    /\ conn = "none"
    /\ last_fault = NoFault
    /\ probed = <<>>
    /\ api_calls = <<>>
    /\ http = <<>>
    /\ http_reply = NoReply
    /\ escaped = "none"
    /\ environ = NoEnviron
    /\ api_response = NoResponse
    /\ sends = <<>>

----------------------------------------------------------------------------
(* What the provider's endpoint can answer. *)

PyDict(d) == [py |-> "dict", v |-> d]

JsonBody(value) == [parses |-> TRUE, json |-> value, text |-> <<"{", "}">>]
TextBody(n)     == [parses |-> FALSE, text |-> [i \in 1..n |-> "x"]]

\* entries of the provider's structured error list
ErrorEntries ==
    { [message |-> <<"The", "from", "address", "does", "not", "match", "a",
                     "verified", "Sender", "Identity">>, field |-> "from"],
      [message |-> <<"verified", "Sender", "Identity", "required">>, field |-> "from"],
      [message |-> <<"invalid", "From", "Address">>, field |-> "from"],
      [message |-> <<"sender", "has", "no", "identity">>, field |-> "from"],
      [message |-> <<"access", "denied">>, field |-> "auth"],
      [field |-> "auth"] }

Bodies ==
    {JsonBody(PyDict([errors |-> l])) : l \in SeqsUpTo(ErrorEntries, MaxErrors)}
      \cup {JsonBody(PyDict([detail |-> "denied"])), JsonBody(PyList(<<>>))}
      \cup {TextBody(n) : n \in {0, TruncLen - 1, TruncLen, TruncLen + 1, MaxBodyLen}}

StatusCodes == {HttpAccepted, HttpUnauthorized, HttpForbidden, HttpBadRequest,
                200, 204, 429, 500}

\* requests.post raising instead of answering
HttpFaults ==
    { [kind |-> "raise", cls |-> "requests.ConnectionError",
       text |-> <<"Max retries exceeded with url">>],
      [kind |-> "raise", cls |-> "requests.ConnectTimeout",
       text |-> <<"Connection to api.sendgrid.com timed out">>],
      [kind |-> "raise", cls |-> "requests.ReadTimeout",
       text |-> <<"Read timed out.">>],
      [kind |-> "raise", cls |-> "TypeError",
       text |-> <<"Object is not JSON serializable">>] }

Replies ==
    {[kind |-> "response", status_code |-> c, body |-> b] : c \in StatusCodes, b \in Bodies}
      \cup HttpFaults

\* the answers met behind the SMTP chain: one of each kind
ChainReplies ==
    { [kind |-> "response", status_code |-> HttpAccepted, body |-> TextBody(0)],
      [kind |-> "response", status_code |-> HttpUnauthorized, body |-> TextBody(0)],
      [kind |-> "response", status_code |-> HttpForbidden, body |-> TextBody(0)],
      [kind |-> "response", status_code |-> HttpForbidden,
       body |-> JsonBody(PyDict([errors |->
                   << [message |-> <<"verified", "Sender", "Identity", "required">>,
                       field |-> "from"] >>]))],
      [kind |-> "response", status_code |-> HttpBadRequest,
       body |-> JsonBody(PyDict([errors |-> << [field |-> "auth"] >>]))],
      [kind |-> "response", status_code |-> 500, body |-> TextBody(TruncLen + 1)] }
      \cup HttpFaults

----------------------------------------------------------------------------
(* send_email *)

\* use_fallback as send_email sees it: send_email_with_api_fallback calls it
\* with the default
UseFallback == IF entry = "send_email" THEN args.use_fallback ELSE TRUE

\* the primary recognised by its server alone
IsPrimaryByHost(s, config) == config.server = s.smtp_server

\* no chain entry taken for the primary
IsPrimaryNever(s, config) == FALSE

\* `config` is the primary: same server and same port
IsPrimary(s, config) == config.server = s.smtp_server /\ config.port = s.smtp_port

\* a fallback attempt's success returned as the adapter gave it
FallbackSuccessUntagged(value, config) == value

\* the dict a fallback attempt's success is returned as
FallbackSuccess(value, config) ==
    [status        |-> value.status,
     message       |-> value.message,
     recipients    |-> value.recipients,
     server_used   |-> value.server_used,
     fallback_used |-> ConfigName(config.server, config.port)]

\* the last attempt's status and message returned, with the probe added
ExhaustedKeepsLast(last, connectivity) ==
    [status            |-> last.status,
     message           |-> last.message,
     suggestion        |-> "use_sendgrid_api",
     connectivity_test |-> connectivity]

\* the dict returned when every SMTP attempt failed
ExhaustedResult(last, connectivity) ==
    [status            |-> "error",
     message           |-> <<"Todos los servidores SMTP fallaron. Considera usar SendGrid API.">>,
     suggestion        |-> "use_sendgrid_api",
     connectivity_test |-> connectivity]

\* send_email returns `value`: to the caller, or to send_email_with_api_fallback
SendEmailReturns(value) ==
    /\ smtp_ret' = value
    /\ IF entry = "send_email"
       THEN pc' = "done" /\ returned' = value
       ELSE pc' = "smtp_returned" /\ UNCHANGED returned

\* an exception leaves the adapter and, through the methods above it, the call
Propagates(cls) ==
    /\ escaped' = cls
    /\ pc' = "raised"

\* the _attempt_send_email call common to the primary and the fallback attempts
Attempt(r) ==
    /\ attempts' = Append(attempts, r.log)
    /\ conn' = r.conn
    /\ last_fault' = r.fault
    /\ args' = [args EXCEPT !.to_emails = r.to_after]

\* send_email stopping at an authentication failure
GoesOnUnlessAuth(value, use_fallback) ==
    value.status \notin {"success", "auth_error"} /\ use_fallback

\* send_email going on whatever use_fallback says
GoesOnAlways(value, use_fallback) == value.status # "success"

\* whether send_email goes on after an attempt's result
GoesOn(value, use_fallback) == value.status # "success" /\ use_fallback

\* lines 84-93: the primary attempt, always made without implicit TLS
SendEmailPrimary ==
    /\ pc = "called"
    /\ entry \in {"send_email", "send_email_with_api_fallback"}
    /\ \E fault \in FaultsFor(FALSE) :
         LET r == AttemptSendEmail(self, self.smtp_server, self.smtp_port, FALSE, args, fault)
         IN  /\ Attempt(r)
             /\ IF r.out.kind = "raise"
                THEN /\ Propagates(r.out.cls)
                     /\ UNCHANGED <<result, smtp_ret, returned, idx>>
                ELSE /\ result' = r.out.value
                     /\ escaped' = escaped
                     /\ IF GoesOn(r.out.value, UseFallback)
                        THEN /\ pc' = "fallback"
                             /\ idx' = 1
                             /\ UNCHANGED <<smtp_ret, returned>>
                        ELSE /\ SendEmailReturns(r.out.value)
                             /\ idx' = idx
    /\ UNCHANGED <<environ, api_response, sends>>
    /\ UNCHANGED <<self, entry, probed, api_calls, http, http_reply>>

\* lines 98-100: a chain entry equal to the primary is passed over
SendEmailSkip ==
    /\ pc = "fallback"
    /\ idx <= Len(self.fallback_configs)
    /\ IsPrimary(self, self.fallback_configs[idx])
    /\ idx' = idx + 1
    /\ UNCHANGED <<environ, api_response, sends>>
    /\ UNCHANGED <<self, args, entry, pc, result, smtp_ret, returned, attempts,
                   conn, last_fault, probed, api_calls, http, http_reply, escaped>>

\* lines 102-111: one fallback attempt
SendEmailFallback ==
    /\ pc = "fallback"
    /\ idx <= Len(self.fallback_configs)
    /\ ~IsPrimary(self, self.fallback_configs[idx])
    /\ LET config == self.fallback_configs[idx]
       IN  \E fault \in FaultsFor(config.ssl) :
             LET r == AttemptSendEmail(self, config.server, config.port, config.ssl,
                                       args, fault)
             IN  /\ Attempt(r)
                 /\ IF r.out.kind = "raise"
                    THEN /\ Propagates(r.out.cls)
                         /\ UNCHANGED <<result, smtp_ret, returned, idx>>
                    ELSE /\ escaped' = escaped
                         /\ IF GoesOn(r.out.value, TRUE)
                            THEN /\ result' = r.out.value
                                 /\ idx' = idx + 1
                                 /\ UNCHANGED <<pc, smtp_ret, returned>>
                            ELSE /\ result' = FallbackSuccess(r.out.value, config)
                                 /\ SendEmailReturns(FallbackSuccess(r.out.value, config))
                                 /\ idx' = idx
    /\ UNCHANGED <<environ, api_response, sends>>
    /\ UNCHANGED <<self, entry, probed, api_calls, http, http_reply>>

\* lines 113-119: the chain is exhausted; the connectivity probe runs
SendEmailExhausted ==
    /\ pc = "fallback"
    /\ idx > Len(self.fallback_configs)
    /\ \E world \in NetWorlds :
         LET t == TestConnectivity(self, world)
         IN  /\ probed' = probed \o t.log
             /\ SendEmailReturns(ExhaustedResult(result, t.results))
    /\ UNCHANGED <<environ, api_response, sends>>
    /\ UNCHANGED <<self, args, entry, idx, result, attempts, conn, last_fault, api_calls, http,
                   http_reply, escaped>>

----------------------------------------------------------------------------
(* send_email_with_api_fallback, after its send_email call *)

\* the eligibility test without its bcc conjunct
ProviderEligibleIgnoringBcc(attachments, cc_emails, bcc_emails) ==
    ~Truthy(attachments) /\ ~Truthy(cc_emails)

\* line 408: not attachments and not cc_emails and not bcc_emails
ProviderEligible(attachments, cc_emails, bcc_emails) ==
    ~Truthy(attachments) /\ ~Truthy(cc_emails) /\ ~Truthy(bcc_emails)

\* line 410: what is handed to send_via_sendgrid_api as to_email
ProviderRecipientArg(to_emails) == PyList(to_emails)

\* the provider tried only when the probe found some endpoint reachable
TriesProviderIfReachable(value, a) ==
    /\ value.status # "success"
    /\ ProviderEligible(a.attachments, a.cc_emails, a.bcc_emails)
    /\ Has(value, "connectivity_test") =>
          \E k \in DOMAIN value.connectivity_test :
              value.connectivity_test[k].status = "reachable"

\* whether the provider is tried after send_email returned `value`
TriesProvider(value, a) ==
    /\ value.status # "success"
    /\ ProviderEligible(a.attachments, a.cc_emails, a.bcc_emails)

\* the call of send_via_sendgrid_api and what comes of it
ProviderCall(to_email, subject, body, is_html, replies) ==
    \E reply \in replies :
        LET r == SendViaSendgridApi(self, to_email, subject, body, is_html, reply)
        IN  /\ api_calls' = Append(api_calls, to_email)
            /\ http' = http \o r.posted
            /\ http_reply' = IF r.posted = <<>> THEN http_reply ELSE reply
            /\ IF r.out.kind = "raise"
               THEN Propagates(r.out.cls) /\ UNCHANGED returned
               ELSE /\ returned' = r.out.value
                    /\ pc' = "done"
                    /\ escaped' = escaped

\* lines 404-405 and 412: the SMTP result is the result
ApiFallbackKeepsSmtp ==
    /\ pc = "smtp_returned"
    /\ ~TriesProvider(smtp_ret, args)
    /\ returned' = smtp_ret
    /\ pc' = "done"
    /\ UNCHANGED <<environ, api_response, sends>>
    /\ UNCHANGED <<self, args, entry, idx, result, smtp_ret, attempts, conn, last_fault, probed,
                   api_calls, http, http_reply, escaped>>

\* lines 408-410: the provider is tried
ApiFallbackProvider ==
    /\ pc = "smtp_returned"
    /\ TriesProvider(smtp_ret, args)
    /\ ProviderCall(ProviderRecipientArg(args.to_emails), args.subject, args.body,
                    args.is_html, ChainReplies)
    /\ UNCHANGED <<environ, api_response, sends>>
    /\ UNCHANGED <<self, args, entry, idx, result, smtp_ret, attempts, conn, last_fault, probed>>

\* a caller invokes send_via_sendgrid_api itself, with one address
DirectProvider ==
    /\ pc = "called"
    /\ entry = "send_via_sendgrid_api"
    /\ ProviderCall(PyStr(args.to_email), args.subject, args.body, args.is_html, Replies)
    /\ UNCHANGED <<environ, api_response, sends>>
    /\ UNCHANGED <<self, args, entry, idx, result, smtp_ret, attempts, conn, last_fault, probed>>

Next ==
    \/ SendEmailPrimary
    \/ SendEmailSkip
    \/ SendEmailFallback
    \/ SendEmailExhausted
    \/ ApiFallbackKeepsSmtp
    \/ ApiFallbackProvider
    \/ DirectProvider

Spec == Init /\ [][Next]_vars

\* the calls with one `to` address and a plain-text body
FairInit ==
    /\ Init
    /\ Has(args, "to_emails") => Len(args.to_emails) = 1
    /\ ~args.is_html

\* Every transport call returns, so a call that can take a step takes it.
FairSpec == FairInit /\ [][Next]_vars /\ WF_vars(Next)

----------------------------------------------------------------------------
(* send_email as steps on the locals of one call, for calls that run side  *)
(* by side on one EmailService instance.                                    *)

\* the locals of a send_email call on instance s with arguments a, at entry;
\* `service` and `call` keep what the call was given
LocalInit(s, a) ==
    [service  |-> s,
     call     |-> a,
     args     |-> a,
     pc       |-> "called",
     idx      |-> 0,
     result   |-> Unset,
     returned |-> Unset,
     attempts |-> <<>>,
     faults   |-> <<>>,
     world    |-> "none"]

RECURSIVE NextCandidate(_, _)
\* lines 98-101: the loop passes over the entries equal to the primary
NextCandidate(s, i) ==
    IF i <= Len(s.fallback_configs) /\ IsPrimary(s, s.fallback_configs[i])
    THEN NextCandidate(s, i + 1)
    ELSE i

\* the locals after an _attempt_send_email call returned r
AfterAttempt(l, r, fault) ==
    [l EXCEPT !.attempts = Append(@, r.log),
              !.faults   = Append(@, fault),
              !.args     = [l.args EXCEPT !.to_emails = r.to_after]]

\* One step of send_email on instance s: the primary attempt, one fallback
\* attempt, or the return after the chain with the connectivity probe.
SendEmailStep(s, l, fault, world) ==
    IF l.pc = "called"
    THEN LET r == AttemptSendEmail(s, s.smtp_server, s.smtp_port, FALSE, l.args, fault)
             after == AfterAttempt(l, r, fault)
         IN  IF r.out.kind = "raise"
             THEN [after EXCEPT !.pc = "raised"]
             ELSE IF GoesOn(r.out.value, l.args.use_fallback)
             THEN [after EXCEPT !.pc = "fallback",
                                !.idx = NextCandidate(s, 1),
                                !.result = r.out.value]
             ELSE [after EXCEPT !.pc = "done",
                                !.result = r.out.value,
                                !.returned = r.out.value]
    ELSE IF l.idx > Len(s.fallback_configs)
    THEN [l EXCEPT !.pc = "done",
                   !.world = world,
                   !.returned = ExhaustedResult(l.result, TestConnectivity(s, world).results)]
    ELSE LET config == s.fallback_configs[l.idx]
             r == AttemptSendEmail(s, config.server, config.port, config.ssl, l.args, fault)
             after == AfterAttempt(l, r, fault)
         IN  IF r.out.kind = "raise"
             THEN [after EXCEPT !.pc = "raised"]
             ELSE IF GoesOn(r.out.value, TRUE)
             THEN [after EXCEPT !.idx = NextCandidate(s, l.idx + 1),
                                !.result = r.out.value]
             ELSE [after EXCEPT !.pc = "done",
                                !.result = FallbackSuccess(r.out.value, config),
                                !.returned = FallbackSuccess(r.out.value, config)]

\* the step is the return after the chain
AtChainEnd(l) == l.pc = "fallback" /\ l.idx > Len(l.service.fallback_configs)

RECURSIVE SendEmailRun(_, _, _)
\* send_email run alone on the instance it was called on, as far as the given
\* transport responses and probe world take it
SendEmailRun(l, faults, world) ==
    IF l.pc \in {"done", "raised"} THEN l
    ELSE IF AtChainEnd(l)
    THEN IF world = "none" THEN l ELSE SendEmailStep(l.service, l, NoFault, world)
    ELSE IF faults = <<>> THEN l
    ELSE SendEmailRun(SendEmailStep(l.service, l, Head(faults), world), Tail(faults), world)

\* the instance promoted to the fallback endpoint that just succeeded
SelfAfterPromotingFallback(s, l) ==
    IF l.pc = "done" /\ Has(l.returned, "fallback_used")
    THEN [s EXCEPT !.smtp_server = l.attempts[Len(l.attempts)].server,
                   !.smtp_port   = l.attempts[Len(l.attempts)].port]
    ELSE s

\* The instance after a step of send_email that left the call's locals at l:
\* send_email assigns no attribute of self and changes none of its lists.
SelfAfter(s, l) == s

\* the transport responses and probe worlds of concurrent calls
PairFaults ==
    {NoFault} \cup {f \in SmtpFaults : f.cls \in {"SMTPAuthenticationError",
                                                   "SMTPRecipientsRefused"}}
PairWorlds == {"connected", "only_submission"}

\* the instance and the messages of concurrent calls
PairServices ==
    { NewEmailService(p.server, p.port, "noreply@x.org", "SG.key") :
        p \in {q \in PrimaryChoices : q.server = "smtp.gmail.com"} }
PairCalls ==
    { a \in ListCalls : /\ a.use_fallback
                        /\ ~a.is_html
                        /\ a.attachments = <<>>
                        /\ a.bcc_emails = <<>>
                        /\ Len(a.to_emails) = 1
                        /\ a.cc_emails = <<>> => a.to_emails = <<"a@x.org">>
                        /\ a.cc_emails # <<>> => a.to_emails = <<"b@x.org">> }

Senders == 1..2

InitPair ==
    /\ self \in PairServices
    /\ entry = "send_email"
    /\ sends \in [Senders -> {LocalInit(self, a) : a \in PairCalls}]
    /\ args = <<>>
    /\ pc = "concurrent"
    /\ idx = 0
    /\ result = Unset
    /\ smtp_ret = Unset
    /\ returned = Unset
    /\ attempts = <<>>
    /\ conn = "none"
    /\ last_fault = NoFault
    /\ probed = <<>>
    /\ api_calls = <<>>
    /\ http = <<>>
    /\ http_reply = NoReply
    /\ escaped = "none"
    /\ environ = NoEnviron
    /\ api_response = NoResponse

\* one of the calls takes its next step
SendStepOf(p) ==
    /\ pc = "concurrent"
    /\ sends[p].pc \notin {"done", "raised"}
    /\ \E fault \in PairFaults, world \in PairWorlds :
         LET l == SendEmailStep(self, sends[p], fault, world)
         IN  /\ sends' = [sends EXCEPT ![p] = l]
             /\ self' = SelfAfter(self, l)
    /\ UNCHANGED <<args, entry, pc, idx, result, smtp_ret, returned, attempts, conn,
                   last_fault, probed, api_calls, http, http_reply, escaped,
                   environ, api_response>>

NextPair == \E p \in Senders : SendStepOf(p)

SpecPair == InitPair /\ [][NextPair]_vars

----------------------------------------------------------------------------
(* main.py: the send endpoints of the web service *)

\* os.getenv(key, default); os.getenv(key) gives None, here ""
Getenv(env, key, default) == IF Has(env, key) THEN env[key] ELSE default

\* int(text) of a port number
IntOf(text) ==
    CASE text = "587" -> 587
      [] text = "465" -> 465
      [] text = "25"  -> 25

\* the environments the service may be started in: the SMTP endpoint left to
\* its defaults or set, each credential unset or set
Environs ==
    { [k \in keys |->
          CASE k = "SMTP_SERVER"   -> p.server
            [] k = "SMTP_PORT"     -> ToString(p.port)
            [] k = "SMTP_USERNAME" -> "user"
            [] k = "SMTP_PASSWORD" -> "secret"
            [] k = "SENDER_EMAIL"  -> "noreply@x.org"] :
        p \in PrimaryChoices,
        keys \in SUBSET {"SMTP_SERVER", "SMTP_PORT", "SMTP_USERNAME", "SMTP_PASSWORD",
                         "SENDER_EMAIL"} }

\* the parameters of EmailService.__init__, none of which has a default
InitParams ==
    {"smtp_server", "smtp_port", "username", "password", "sender_email",
     "sender_name", "sendgrid_api_key"}

\* str(e) of the TypeError of a call that misses required arguments
MissingArgumentsText(missing) ==
    <<"__init__() missing ", ToString(Cardinality(missing)), " required positional argument">>

\* EmailService(**kwargs): Python binds the keyword arguments to the
\* parameters of __init__ and raises TypeError when a required one is missing
EmailServiceCall(kwargs) ==
    IF InitParams \ DOMAIN kwargs # {}
    THEN [kind |-> "raise", cls |-> "TypeError",
          text |-> MissingArgumentsText(InitParams \ DOMAIN kwargs)]
    ELSE Return([k \in InitParams \cup {"fallback_configs"} |->
                    IF k = "fallback_configs" THEN FallbackConfigs ELSE kwargs[k]])

\* get_email_service
GetEmailService(env) ==
    EmailServiceCall(
        [smtp_server  |-> Getenv(env, "SMTP_SERVER", "smtp.gmail.com"),
         smtp_port    |-> IntOf(Getenv(env, "SMTP_PORT", "587")),
         username     |-> Getenv(env, "SMTP_USERNAME", ""),
         password     |-> Getenv(env, "SMTP_PASSWORD", ""),
         sender_email |-> Getenv(env, "SENDER_EMAIL", ""),
         sender_name  |-> Getenv(env, "SENDER_NAME", "Email Sender API")])

\* str(e) of HTTPException(status_code, detail): "<code>: <detail>" or the
\* empty string, by the version of the framework
HttpExceptionStr(status_code, detail) ==
    { <<ToString(status_code), ": ">> \o detail, <<>> }

\* the closing `except Exception` of every endpoint
InternalError(text) ==
    [status_code |-> 500, detail |-> <<"Error interno: ">> \o text]

\* what send_email can return for a call, over the transport responses to
\* its attempts and the probe worlds
SendEmailOutcomes(s, a) ==
    { SendEmailRun(LocalInit(s, a), faults, world).returned :
        faults \in [1..(1 + Len(s.fallback_configs)) -> FaultsFor(TRUE)],
        world \in NetWorlds }

\* EmailResponse(**result): status, message and the optional recipients
EmailResponse(value) ==
    [status     |-> value["status"],
     message    |-> value["message"],
     recipients |-> IF Has(value, "recipients") THEN value["recipients"] ELSE -1]

\* the end of an endpoint once the core returned `value`: the HTTPException
\* raised for status "error" is caught by the closing `except Exception`
RespondTo(value) ==
    IF value["status"] = "error"
    THEN { InternalError(text) : text \in HttpExceptionStr(500, value["message"]) }
    ELSE { [status_code |-> 200, body |-> EmailResponse(value)] }

\* An endpoint from get_email_service() to its response, the core being
\* called with `call`: the outcome the core returned, if it was called, and
\* the response.
EndpointOutcomes(env, call) ==
    LET made == GetEmailService(env)
    IN  IF made.kind = "raise"
        THEN { [core |-> Unset, response |-> InternalError(made.text)] }
        ELSE IF ~TruthyStr(made.value["username"]) \/ ~TruthyStr(made.value["password"])
        THEN { [core |-> Unset, response |-> InternalError(text)] :
                 text \in HttpExceptionStr(500,
                     <<"Configuración SMTP incompleta. Verifica las variables de entorno.">>) }
        ELSE UNION { { [core |-> out, response |-> resp] : resp \in RespondTo(out) } :
                       out \in SendEmailOutcomes(made.value, call) }

RECURSIVE SplitCommas(_)
\* [email.strip() for email in text.split(",")], text as address and comma tokens
SplitCommas(text) ==
    IF text = <<>> THEN <<>>
    ELSE IF Head(text) = "," THEN SplitCommas(Tail(text))
    ELSE <<Head(text)>> \o SplitCommas(Tail(text))

\* the bodies of POST /send-email
EmailRequests ==
    { [to_emails |-> to, subject |-> "hello", body |-> "text", cc_emails |-> cc,
       bcc_emails |-> bcc, is_html |-> html] :
        to   \in SeqsUpTo(ToAddresses, MaxTo) \ {<<>>},
        cc   \in SeqsUpTo({"c@x.org"}, MaxCopy),
        bcc  \in SeqsUpTo({"a@x.org"}, MaxCopy),
        html \in BOOLEAN }

\* the bodies of POST /send-simple-email
SimpleEmailRequests ==
    { [to_email |-> to, subject |-> "hello", body |-> "text"] : to \in ToAddresses }

\* the parameters of POST /send-email-with-attachment
AttachmentRequests ==
    { [to_emails |-> Join(",", to), subject |-> "hello", body |-> "text",
       file |-> "report.pdf", cc_emails |-> Join(",", cc), is_html |-> html] :
        to   \in SeqsUpTo(ToAddresses, MaxTo) \ {<<>>},
        cc   \in SeqsUpTo({"c@x.org"}, MaxCopy),
        html \in BOOLEAN }

Endpoints == {"/send-email", "/send-simple-email", "/send-email-with-attachment"}

InitApi ==
    /\ environ \in Environs
    /\ entry \in Endpoints
    /\ args \in CASE entry = "/send-email" -> EmailRequests
                  [] entry = "/send-simple-email" -> SimpleEmailRequests
                  [] OTHER -> AttachmentRequests
    /\ pc = "requested"
    /\ api_response = NoResponse
    /\ self = <<>>
    /\ sends = <<>>
    /\ idx = 0
    /\ result = Unset
    /\ smtp_ret = Unset
    /\ returned = Unset
    /\ attempts = <<>>
    /\ conn = "none"
    /\ last_fault = NoFault
    /\ probed = <<>>
    /\ api_calls = <<>>
    /\ http = <<>>
    /\ http_reply = NoReply
    /\ escaped = "none"

\* the endpoint answers: `returned` is what the core returned to it
Endpoint(call) ==
    /\ pc = "requested"
    /\ \E o \in EndpointOutcomes(environ, call) :
         /\ returned' = o.core
         /\ api_response' = o.response
    /\ pc' = "responded"
    /\ UNCHANGED <<self, args, entry, idx, result, smtp_ret, attempts, conn,
                   last_fault, probed, api_calls, http, http_reply, escaped,
                   environ, sends>>

\* lines 65-94
PostSendEmail ==
    /\ entry = "/send-email"
    /\ Endpoint([to_emails    |-> args.to_emails,
                 subject      |-> args.subject,
                 body         |-> args.body,
                 cc_emails    |-> args.cc_emails,
                 bcc_emails   |-> args.bcc_emails,
                 attachments  |-> <<>>,
                 is_html      |-> args.is_html,
                 use_fallback |-> TRUE])

\* lines 96-122, through send_simple_email
PostSendSimpleEmail ==
    /\ entry = "/send-simple-email"
    /\ Endpoint([to_emails    |-> <<args.to_email>>,
                 subject      |-> args.subject,
                 body         |-> args.body,
                 cc_emails    |-> <<>>,
                 bcc_emails   |-> <<>>,
                 attachments  |-> <<>>,
                 is_html      |-> FALSE,
                 use_fallback |-> TRUE])

\* lines 124-179; the temporary file is written and removed within the call
PostSendEmailWithAttachment ==
    /\ entry = "/send-email-with-attachment"
    /\ Endpoint([to_emails    |-> SplitCommas(args.to_emails),
                 subject      |-> args.subject,
                 body         |-> args.body,
                 cc_emails    |-> SplitCommas(args.cc_emails),
                 bcc_emails   |-> <<>>,
                 attachments  |-> <<"/tmp/" \o args.file>>,
                 is_html      |-> args.is_html,
                 use_fallback |-> TRUE])

NextApi ==
    \/ PostSendEmail
    \/ PostSendSimpleEmail
    \/ PostSendEmailWithAttachment

SpecApi == InitApi /\ [][NextApi]_vars

----------------------------------------------------------------------------
(* Properties. *)

PrimaryName == ConfigName(self.smtp_server, self.smtp_port)

\* send_email has returned a value
SendEmailReturned == pc \in {"smtp_returned", "done"}

\* the chain entries send_email attempts: those that are not the primary
ChainCandidates ==
    {i \in 1..Len(self.fallback_configs) : ~IsPrimary(self, self.fallback_configs[i])}

\* the primary and every chain candidate were attempted, and each failed
AllSmtpFailed ==
    /\ Len(attempts) = 1 + Cardinality(ChainCandidates)
    /\ \A i \in 1..Len(attempts) : ~attempts[i].ok

\* the message has no attachment, no cc and no bcc
SimpleMessage ==
    args.attachments = <<>> /\ args.cc_emails = <<>> /\ args.bcc_emails = <<>>

\* C1: when the primary SMTP attempt succeeds, send_email returns status
\* success with recipients = |to| + |cc| + |bcc| and server_used = the primary
\* host:port, and no fallback attempt, no provider call and no connectivity
\* probe is made.
C1_PrimarySuccess ==
    (Len(attempts) >= 1 /\ attempts[1].ok) =>
        /\ Len(attempts) = 1
        /\ probed = <<>>
        /\ api_calls = <<>>
        /\ http = <<>>
        /\ SendEmailReturned
        /\ smtp_ret.status = "success"
        /\ smtp_ret.recipients =
              Len(args.to_emails) + Len(args.cc_emails) + Len(args.bcc_emails)
        /\ smtp_ret.server_used = PrimaryName
        /\ ~Has(smtp_ret, "fallback_used")
        /\ pc = "done" => returned = smtp_ret

C1_Witness ==
    /\ pc = "done"
    /\ entry = "send_email_with_api_fallback"
    /\ attempts[1].ok
    /\ Len(args.to_emails) = 2
    /\ args.cc_emails # <<>>
    /\ args.bcc_emails # <<>>

\* C2: when the primary attempt failed and a fallback candidate succeeds,
\* send_email returns success with fallback_used = that candidate's host:port
\* and no candidate after it is attempted.
C2_FallbackShortCircuit ==
    \A i \in 2..Len(attempts) :
        attempts[i].ok =>
            /\ i = Len(attempts)
            /\ ~attempts[1].ok
            /\ SendEmailReturned
            /\ smtp_ret.status = "success"
            /\ Has(smtp_ret, "fallback_used")
            /\ smtp_ret.fallback_used = ConfigName(attempts[i].server, attempts[i].port)
            /\ smtp_ret.fallback_used # PrimaryName
            /\ pc = "done" => returned = smtp_ret

C2_Witness ==
    /\ pc = "done"
    /\ Len(attempts) = 3
    /\ attempts[3].ok
    /\ Len(attempts) < 1 + Cardinality(ChainCandidates)

\* C3: in send_email_with_api_fallback the provider adapter is invoked if and
\* only if every SMTP candidate failed and the message has no attachment, no
\* cc and no bcc; a message with an attachment, a cc or a bcc never reaches it.
C3_ProviderIffSimpleAndExhausted ==
    entry = "send_email_with_api_fallback" =>
        /\ Len(api_calls) <= 1
        /\ api_calls # <<>> => SimpleMessage /\ AllSmtpFailed
        /\ ~SimpleMessage => api_calls = <<>> /\ http = <<>>
        /\ pc = "done" => (api_calls # <<>> <=> SimpleMessage /\ AllSmtpFailed)

C3_Witness ==
    /\ entry = "send_email_with_api_fallback"
    /\ pc = "done"
    /\ Len(api_calls) = 1
    /\ AllSmtpFailed
    /\ SimpleMessage

\* every SMTP candidate failed and the outcome is send_email's own: the
\* provider is not in play
ExhaustedWithoutProvider ==
    /\ pc = "done"
    /\ AllSmtpFailed
    /\ entry = "send_email" \/ ~SimpleMessage

AllFailedMessage ==
    <<"Todos los servidores SMTP fallaron. Considera usar SendGrid API.">>

\* C4 as stated: when all SMTP candidates fail and the message is not eligible
\* for the provider, the final outcome carries the last SMTP failure's status
\* and message, the connectivity diagnostic being added beside them.
C4_LastFailurePreserved ==
    ExhaustedWithoutProvider =>
        /\ returned.status = result.status
        /\ returned.message = result.message
        /\ Has(returned, "connectivity_test")

\* C4 as amended: in that case the final outcome has status error and the
\* fixed message that all SMTP servers failed, whatever the last SMTP failure's
\* status and message were; the connectivity diagnostic is attached under its
\* own key, beside a suggestion to use the provider API.
C4_ExhaustedIsGenericError ==
    ExhaustedWithoutProvider =>
        /\ returned.status = "error"
        /\ returned.message = AllFailedMessage
        /\ returned.message # result.message
        /\ DOMAIN returned = {"status", "message", "suggestion", "connectivity_test"}
        /\ returned.suggestion = "use_sendgrid_api"
        /\ DOMAIN returned.connectivity_test = Range(probed)
        /\ probed # <<>>

C4_Witness ==
    /\ ExhaustedWithoutProvider
    /\ result.status = "auth_error"
    /\ returned.status = "error"
    /\ args.attachments # <<>>

\* C5: when all SMTP candidates fail, the message has no attachment, cc or bcc
\* and an API key is configured, the provider adapter is invoked exactly once
\* and the payload it posts holds exactly one recipient, the address to[0].
C5_ProviderSingleRecipient ==
    ( /\ entry = "send_email_with_api_fallback"
      /\ pc = "done"
      /\ AllSmtpFailed
      /\ SimpleMessage
      /\ self.sendgrid_api_key # "" ) =>
        /\ Len(api_calls) = 1
        /\ Len(http) <= 1
        /\ \A i \in 1..Len(http) :
              LET p == http[i].json.personalizations
              IN  /\ Len(p) = 1
                  /\ Len(p[1].to) = 1
                  /\ p[1].to[1].email.py = "str"
                  /\ p[1].to[1].email.v = args.to_emails[1]

\* the tokens of every composed header of an attempt
HeaderTokens(headers) == UNION {Range(headers[k]) : k \in DOMAIN headers}

\* the addresses listed in a comma-joined header
ListedIn(header) == SelectSeq(header, LAMBDA t : t # ", ")

C7_PrecheckBeforeRequest ==
    /\ http # <<>> => self.sendgrid_api_key # "" /\ self.sender_email # ""
    /\ (api_calls # <<>> /\ self.sendgrid_api_key = "") =>
          /\ pc = "done"
          /\ returned.status = "error"
          /\ returned.error_type = "config_missing"
          /\ http = <<>>
    /\ (api_calls # <<>> /\ self.sendgrid_api_key # "" /\ self.sender_email = "") =>
          /\ pc = "done"
          /\ returned.status = "error"
          /\ returned.error_type = "sender_missing"
          /\ http = <<>>

C7_Witness ==
    /\ api_calls # <<>>
    /\ self.sendgrid_api_key # ""
    /\ self.sender_email = ""
    /\ returned.error_type = "sender_missing"

\* the spellings of a word that lower() maps to it
Spellings(w) ==
    CASE w = "sender"   -> {"sender", "Sender"}
      [] w = "identity" -> {"identity", "Identity"}
      [] w = "from"     -> {"from", "From"}
      [] w = "address"  -> {"address", "Address"}

\* an entry of the error list whose message mentions sender identity or from
\* address, in any letter case
MentionsSender(error) ==
    /\ Has(error, "message")
    /\ \E k \in 1..(Len(error.message) - 1) :
          \/ /\ error.message[k] \in Spellings("sender")
             /\ error.message[k + 1] \in Spellings("identity")
          \/ /\ error.message[k] \in Spellings("from")
             /\ error.message[k + 1] \in Spellings("address")

\* the response body is a JSON object whose error list has such an entry
BodyMentionsSender(body) ==
    /\ body.parses
    /\ body.json.py = "dict"
    /\ Has(body.json.v, "errors")
    /\ \E k \in 1..Len(body.json.v.errors) : MentionsSender(body.json.v.errors[k])

\* the provider answered the request with a response
Answered == pc = "done" /\ http_reply.kind = "response"

\* C8: a 403 response is classified sender_not_verified if some entry of the
\* body's error list has a message mentioning sender identity or from address,
\* and forbidden in every other case (other errors, an empty list, a body that
\* does not parse).
C8_Forbidden403 ==
    (Answered /\ http_reply.status_code = 403) =>
        /\ returned.status = "error"
        /\ returned.error_type =
              IF BodyMentionsSender(http_reply.body) THEN "sender_not_verified"
              ELSE "forbidden"

C8_Witness ==
    /\ Answered
    /\ http_reply.status_code = 403
    /\ http_reply.body.parses
    /\ http_reply.body.json.py = "dict"
    /\ Has(http_reply.body.json.v, "errors")
    /\ Len(http_reply.body.json.v.errors) = 2
    /\ ~MentionsSender(http_reply.body.json.v.errors[1])
    /\ MentionsSender(http_reply.body.json.v.errors[2])
    /\ "Identity" \in Range(http_reply.body.json.v.errors[2].message)
    /\ returned.error_type = "sender_not_verified"

\* C9: the provider adapter's outcome follows the status code: 202 success,
\* 401 authentication, 403 sender_not_verified or forbidden, 400 bad_request,
\* any other code c api_error_<c> with at most 500 characters of the response
\* body attached; success is returned for 202 alone.
C9_StatusCodeMapping ==
    Answered =>
        LET c == http_reply.status_code
        IN  /\ returned.status = "success" <=> c = 202
            /\ c = 401 => returned.error_type = "authentication"
            /\ c = 403 => returned.error_type \in {"sender_not_verified", "forbidden"}
            /\ c = 400 => returned.error_type = "bad_request"
            /\ c \notin {202, 401, 403, 400} =>
                  /\ returned.error_type = "api_error_" \o ToString(c)
                  /\ Len(returned.response) <= 500
                  /\ Len(returned.response) <= Len(http_reply.body.text)
                  /\ returned.response =
                        SubSeq(http_reply.body.text, 1, Len(returned.response))
                  /\ Len(http_reply.body.text) <= 500 =>
                        returned.response = http_reply.body.text

C9_Witness ==
    /\ Answered
    /\ http_reply.status_code = 200
    /\ Len(http_reply.body.text) = 501
    /\ returned.error_type = "api_error_200"
    /\ Len(returned.response) = 500

\* C10: no exception leaves a transport adapter: whatever fault an SMTP attempt
\* or a provider call meets, the adapter returns an outcome with a status and
\* a message, which the orchestrator receives.
C10_NoExceptionEscapes ==
    /\ escaped = "none"
    /\ pc # "raised"
    /\ attempts # <<>> =>
          /\ result # Unset
          /\ Has(result, "status")
          /\ Has(result, "message")
          /\ result.status = "success" <=> attempts[Len(attempts)].ok
    /\ api_calls # <<>> =>
          /\ pc = "done"
          /\ Has(returned, "status")
          /\ Has(returned, "message")

C10_Witness ==
    /\ pc = "done"
    /\ result.status = "error"
    /\ ~attempts[Len(attempts)].ok
    /\ api_calls # <<>>
    /\ http_reply.kind = "raise"
    /\ returned.error_type = "unexpected_error"

C12_NoFallbackReturnsPrimaryFailure ==
    (/\ entry = "send_email"
     /\ ~args.use_fallback
     /\ attempts # <<>>
     /\ ~attempts[1].ok) =>
        /\ pc = "done"
        /\ Len(attempts) = 1
        /\ probed = <<>>
        /\ api_calls = <<>>
        /\ returned = result
        /\ returned = SmtpExcept(self.smtp_server, self.smtp_port, last_fault).value
        /\ ~Has(returned, "connectivity_test")

C12_Witness ==
    /\ pc = "done"
    /\ entry = "send_email"
    /\ ~args.use_fallback
    /\ returned.status = "auth_error"

\* the status the classification is said to give to a fault
ClaimedStatus(fault) ==
    IF fault.cls = "SMTPAuthenticationError" THEN "auth_error"
    ELSE IF fault.cls = "SMTPConnectError" THEN "connection_error"
    ELSE IF fault.cls \in {"OSError", "ConnectionRefusedError"}
    THEN IF Contains(fault.text, <<"Network is unreachable">>)
         THEN "network_unreachable"
         ELSE "network_error"
    ELSE "error"

\* C13: a failed SMTP attempt is classified in this order: an authentication
\* failure gives auth_error, a failure to establish the SMTP connection gives
\* connection_error, an operating-system failure saying the network is
\* unreachable gives network_unreachable, any other operating-system failure
\* gives network_error, and every other failure, the other SMTP protocol errors
\* included, gives error.
C13_ClassificationOrder ==
    (attempts # <<>> /\ last_fault # NoFault) =>
        result.status = ClaimedStatus(last_fault)

\* C14: when an SMTP attempt returns, the connection it opened is closed, on
\* the success path and on every failure path.
C14_ConnectionClosedOnReturn ==
    attempts # <<>> => conn \in {"none", "quit"}

\* the order send_email is to follow: the primary, then the chain as declared
\* without the entries whose server and port are both the primary's
ExpectedOrder ==
    LET NotPrimary(c) == ~(c.server = self.smtp_server /\ c.port = self.smtp_port)
    IN  <<[server |-> self.smtp_server, port |-> self.smtp_port]>>
            \o SelectSeq(self.fallback_configs, NotPrimary)

\* C17: within one send the SMTP attempts are made one after the other in a
\* fixed order: the primary first, then the fallback chain in its declared
\* order without the entries whose host and port both equal the primary's; an
\* attempt is made only after the one before it returned a non-success outcome.
C17_SequentialOrderedAttempts ==
    /\ Len(attempts) <= Len(ExpectedOrder)
    /\ \A i \in 1..Len(attempts) :
          /\ attempts[i].server = ExpectedOrder[i].server
          /\ attempts[i].port = ExpectedOrder[i].port
    /\ \A i \in 1..(Len(attempts) - 1) : ~attempts[i].ok

C17_Witness ==
    /\ Len(attempts) = 4
    /\ self.smtp_server = "smtp.gmail.com"
    /\ self.smtp_port = 465
    /\ attempts[2].port = 587
    /\ attempts[4].ok

\* C18: every SMTP attempt uses the encryption mode declared for its endpoint:
\* each fallback attempt the mode of its chain entry and the primary attempt
\* the primary's own mode, so that a primary on an endpoint declared for
\* implicit TLS is attempted with implicit TLS.
C18_DeclaredEncryptionMode ==
    \A i \in 1..Len(attempts) :
        \A j \in 1..Len(self.fallback_configs) :
            (/\ self.fallback_configs[j].server = attempts[i].server
             /\ self.fallback_configs[j].port = attempts[i].port) =>
                attempts[i].use_ssl = self.fallback_configs[j].ssl

\* C19: the connectivity probe runs only after the primary and every fallback
\* attempt failed; it does not run when an SMTP attempt succeeded or when
\* use_fallback is false, no SMTP attempt follows it, and whether the provider
\* is called does not depend on what it found.
C19_ProbeOnlyAfterExhaustion ==
    /\ probed # <<>> => AllSmtpFailed /\ UseFallback /\ SendEmailReturned
    /\ (\E i \in 1..Len(attempts) : attempts[i].ok) => probed = <<>>
    /\ (entry = "send_email" /\ ~args.use_fallback) => probed = <<>>
    /\ (pc = "done" /\ entry = "send_email_with_api_fallback" /\ probed # <<>>) =>
          (api_calls # <<>> <=> SimpleMessage)

C19_Witness ==
    /\ pc = "done"
    /\ entry = "send_email_with_api_fallback"
    /\ probed # <<>>
    /\ \A k \in DOMAIN smtp_ret.connectivity_test :
          smtp_ret.connectivity_test[k].status # "reachable"
    /\ api_calls # <<>>
    /\ returned.status = "success"

\* host:port of the primary and of every chain entry
ProbeTargets ==
    {PrimaryName} \cup
    {ConfigName(self.fallback_configs[j].server, self.fallback_configs[j].port) :
        j \in 1..Len(self.fallback_configs)}

\* the diagnostic has one entry per target and no target was probed twice
DiagnosticComplete(d) ==
    /\ DOMAIN d = ProbeTargets
    /\ Len(probed) = Cardinality(ProbeTargets)
    /\ Range(probed) = ProbeTargets

\* every entry of the diagnostic carries one tag of the set
TaggedWithin(d, tags) == \A k \in DOMAIN d : d[k].status \in tags

\* C20 as stated: the connectivity diagnostic has exactly one entry for the
\* primary host:port and for every chain host:port, none probed twice, each
\* tagged reachable, unreachable, dns_error or probe_error.
C20_DiagnosticTagsProbeError ==
    Has(smtp_ret, "connectivity_test") =>
        /\ DiagnosticComplete(smtp_ret.connectivity_test)
        /\ TaggedWithin(smtp_ret.connectivity_test,
                        {"reachable", "unreachable", "dns_error", "probe_error"})

\* C20, amended: the connectivity diagnostic has exactly one entry for the
\* primary host:port and for every chain host:port, none probed twice, each
\* tagged reachable, unreachable, dns_error or error.
C20_DiagnosticOneEntryPerTarget ==
    Has(smtp_ret, "connectivity_test") =>
        /\ DiagnosticComplete(smtp_ret.connectivity_test)
        /\ TaggedWithin(smtp_ret.connectivity_test,
                        {"reachable", "unreachable", "dns_error", "error"})

C20_Witness ==
    /\ Has(smtp_ret, "connectivity_test")
    /\ self.smtp_port = 465
    /\ Len(probed) = 4
    /\ smtp_ret.connectivity_test["smtp.gmail.com:465"].status = "unreachable"
    /\ smtp_ret.connectivity_test["smtp.gmail.com:587"].status = "reachable"

\* C16: two send_email calls running side by side are independent: under every
\* interleaving each call's attempts, locals and outcome are those of the same
\* call run alone with the same message and the same transport responses to
\* its own attempts, and the instance both calls read is never written.
C16_ConcurrentSendsIndependent ==
    \A p \in DOMAIN sends :
        /\ self = sends[p].service
        /\ sends[p] = SendEmailRun(LocalInit(sends[p].service, sends[p].call),
                                   sends[p].faults, sends[p].world)

C16_Witness ==
    /\ pc = "concurrent"
    /\ sends[1].pc = "done"
    /\ Has(sends[1].returned, "fallback_used")
    /\ sends[2].pc = "fallback"
    /\ Len(sends[2].attempts) = 2
    /\ sends[1].call # sends[2].call

\* the service was started with both SMTP credentials
Configured ==
    /\ TruthyStr(Getenv(environ, "SMTP_USERNAME", ""))
    /\ TruthyStr(Getenv(environ, "SMTP_PASSWORD", ""))

\* C15: a request to a send endpoint of a configured service is answered from
\* the outcome of the send it asks for: a success outcome with a success
\* response carrying status, message and recipients, every other outcome with
\* a 500 response whose detail carries the outcome's message.
C15_ResponseFollowsOutcome ==
    (pc = "responded" /\ Configured) =>
        /\ returned # Unset
        /\ returned.status = "success" =>
              /\ api_response.status_code = 200
              /\ api_response.body.status = "success"
              /\ api_response.body.message = returned.message
        /\ returned.status # "success" =>
              /\ api_response.status_code = 500
              /\ Contains(api_response.detail, returned.message)

\* C21: every success outcome of send_email or send_email_with_api_fallback
\* carries the recipient count, on the SMTP paths and on the provider path; a
\* success through SMTP names in server_used the endpoint that succeeded; and
\* fallback_used is present exactly when the success came from an endpoint
\* other than the primary, and then equals server_used.
C21_SuccessOutcomeFields ==
    (pc = "done" /\ entry # "send_via_sendgrid_api") =>
        /\ returned.status = "success" => Has(returned, "recipients")
        /\ (returned.status = "success" /\ api_calls = <<>>) =>
              /\ Has(returned, "server_used")
              /\ returned.server_used =
                    ConfigName(attempts[Len(attempts)].server, attempts[Len(attempts)].port)
              /\ attempts[Len(attempts)].ok
        /\ Has(returned, "fallback_used") <=>
              (returned.status = "success" /\ api_calls = <<>> /\ Len(attempts) > 1)
        /\ Has(returned, "fallback_used") =>
              returned.fallback_used = returned.server_used

\* C22: no step of a send changes the configuration or the message: the
\* instance (primary endpoint, credentials, fallback chain and its order) and
\* the caller's to, cc, bcc and attachment lists stay as they were, and every
\* attempt of the send is handed the same recipient envelope, to + cc + bcc.
C22_SendsChangeNothing ==
    [][/\ self' = self
       /\ args' = args
       /\ \A i \in 1..Len(attempts') :
             attempts'[i].envelope =
                 args.to_emails \o args.cc_emails \o args.bcc_emails]_vars

C22_Witness ==
    /\ pc = "done"
    /\ Len(attempts) = 4
    /\ args.cc_emails # <<>>
    /\ args.bcc_emails # <<>>
    /\ args.attachments # <<>>
    /\ attempts[4].envelope = attempts[1].envelope
    /\ Len(attempts[4].envelope) = 3
    /\ self.fallback_configs = FallbackConfigs

\* host:port of the SMTP attempts made, in their order
AttemptNames ==
    [i \in 1..Len(attempts) |-> ConfigName(attempts[i].server, attempts[i].port)]

\* no element occurs twice
NoRepeat(seq) == \A i, j \in 1..Len(seq) : seq[i] = seq[j] => i = j

\* the call has ended with an outcome that has a status
Ended == pc = "done" /\ returned # Unset /\ Has(returned, "status")

\* C23: every transport call returning, a send ends with an outcome, and on
\* the way it makes at most one SMTP attempt per host:port (the primary and at
\* most the four chain entries, none twice), at most one pass of the
\* connectivity probe and at most one provider call.
C23_BoundedTermination ==
    /\ [](/\ Len(attempts) <= 1 + Len(self.fallback_configs)
          /\ Len(self.fallback_configs) = 4
          /\ NoRepeat(AttemptNames)
          /\ NoRepeat(probed)
          /\ Len(probed) <= 1 + Len(self.fallback_configs)
          /\ Len(api_calls) <= 1
          /\ Len(http) <= 1)
    /\ <>Ended

C23_Witness ==
    /\ Ended
    /\ entry = "send_email_with_api_fallback"
    /\ Len(attempts) = 5
    /\ Len(probed) = 5
    /\ Len(api_calls) = 1
    /\ returned.status = "error"

====
